---------------------------- MODULE Spec2Model ----------------------------
(***************************************************************************)
(* IOLClient (src/iol_client.py): token lifecycle of a REST client.        *)
(*                                                                         *)
(* Every method of the class is an operator over a machine record m that   *)
(* holds the attributes of self, the token file, the clock, the exception  *)
(* in flight and the events of the running call.  A method returns the SET *)
(* of machines it can end in, one per answer of the server.  A machine     *)
(* whose exc is not NoExc is a call that raised; later statements are      *)
(* skipped for it, as in Python.  Time passes between two calls and while  *)
(* the client waits for the token endpoint.                                *)
(***************************************************************************)
EXTENDS Integers, Sequences, FiniteSets, TLC

VARIABLES
    phase,      \* "none" (no client), "alive", "closed" (__exit__ has run)
    username,   \* self.username
    password,   \* self.password
    tokens,     \* self.tokens: the attribute may be unset
    file,       \* tokens.json
    clock,      \* time.time()
    call,       \* the last step: the method called, or "idle"
    trace,      \* the events of the last call: calls, requests, os.getenv reads
    exc,        \* the exception the caller of the last call sees
    ret,        \* the value the last call returned
    inflight,   \* the exception __exit__ was entered with
    endpoint    \* the endpoint argument of the last call (get and post have one)

vars ==
    <<phase, username, password, tokens, file, clock, call, trace, exc, ret, inflight,
      endpoint>>

-----------------------------------------------------------------------------
(* Bounds *)

MaxClock == 3
MaxWait == 1
Lifetime == 2

-----------------------------------------------------------------------------
(* Python values *)

None == "<None>"

StrTruthy(s) == s # None /\ s # ""

PyOr(a, b) == IF StrTruthy(a) THEN a ELSE b

EmptyDict == [k \in {} |-> 0]

Unset == [kind |-> "unset", d |-> EmptyDict]

PyNone == [kind |-> "None", d |-> EmptyDict]

Dict(d) == [kind |-> "dict", d |-> d]

Truthy(v) == v.kind = "dict" /\ DOMAIN v.d # {}

SetItem(d, key, val) == [k \in DOMAIN d \cup {key} |-> IF k = key THEN val ELSE d[k]]

DelItem(d, key) == [k \in DOMAIN d \ {key} |-> d[k]]

DictGet(d, key, default) == IF key \in DOMAIN d THEN d[key] ELSE default

NoExc == [type |-> "", status |-> 0]

Exc(type, status) == [type |-> type, status |-> status]

\* a call that raises returns no value
Raise(m, type, status) == [m EXCEPT !.exc = Exc(type, status), !.ret = ""]

-----------------------------------------------------------------------------
(* The server *)

TokenJson(a, e) ==
    [k \in {"access_token", "refresh_token", "expires_in", "token_type"} |->
        CASE k = "access_token" -> a
          [] k = "refresh_token" -> "R-" \o a
          [] k = "expires_in" -> e
          [] OTHER -> "bearer"]

\* a body with an expires_at of the server's own and no expires_in
NoExpiresIn ==
    DelItem(SetItem(TokenJson("A1", Lifetime), "expires_at", MaxClock + 1), "expires_in")

\* The bodies the token endpoint answers 200 with: the four fields of the
\* contract, and bodies that leave the contract (a field missing, an
\* expires_at of the server's own).
Payloads ==
    {TokenJson("A1", Lifetime),
     SetItem(TokenJson("A2", Lifetime), "expires_at", 0),
     TokenJson("A2", 0),
     DelItem(TokenJson("A1", Lifetime), "refresh_token"),
     NoExpiresIn}

\* the JSON body of an answer that is not a grant
ErrorJson == [k \in {"error"} |-> "multiple_choices"]

\* status 0: no response at all (requests raises ConnectionError); 300: a
\* 3xx answer without a Location header, which requests hands to the caller
TokenReplies ==
    {[status |-> 200, json |-> p] : p \in Payloads}
    \cup {[status |-> s, json |-> EmptyDict] : s \in {0, 401}}
    \cup {[status |-> 300, json |-> ErrorJson]}

ResourceReplies ==
    {[status |-> 200, body |-> "B200"],
     [status |-> 300, body |-> "B300"],
     [status |-> 401, body |-> "E401"],
     [status |-> 500, body |-> "E500"],
     [status |-> 0, body |-> ""]}

raise_for_status(status) == 400 <= status /\ status < 600

-----------------------------------------------------------------------------
(* Events of a call *)

\* a method is called from site ("caller": from outside the class)
CallEv(name, site) == [ev |-> "call", name |-> name, site |-> site]

\* a request to the token endpoint, with the credential of its grant, and
\* the reply to it
TokenEv(grant, cred, r) ==
    [ev |-> "req", name |-> grant, cred |-> cred, status |-> r.status, json |-> r.json]

\* a request to a resource endpoint of machine m, whose ret is the bearer
\* token of the Authorization header, and the reply to it; sent and held are
\* the clock and the TokenSet in memory when it goes out
ResourceEv(method, url, m, r) ==
    [ev |-> "req", name |-> method, url |-> url, cred |-> m.ret,
     status |-> r.status, body |-> r.body, sent |-> m.clock, held |-> m.tokens.d]

\* os.getenv(name) was evaluated and returned value
GetenvEv(name, value) == [ev |-> "getenv", name |-> name, value |-> value]

Log(m, e) == [m EXCEPT !.trace = Append(@, e)]

\* The time a request to the token endpoint can take.  The clock is read
\* right after its response (lines 130 and 150) and right before a request
\* (line 157); the time a resource request takes is read by no statement
\* before the next token exchange or the next call, and is part of theirs.
Waits(m) == {d \in 0..MaxWait : m.clock + d <= MaxClock}

\* a request and its response: d later, logged as e
Exchange(m, d, e) == [m EXCEPT !.clock = @ + d, !.trace = Append(@, e)]


-----------------------------------------------------------------------------
(* Token store *)

\* the order json.dump writes the keys of a token dict in
KeyOrder ==
    <<"error", "access_token", "refresh_token", "expires_in", "token_type", "expires_at">>

\* json.dump(self.tokens, f): the text of the file, one <<key, value>> member
\* per key of the dict
json_dump(d) ==
    LET keys == SelectSeq(KeyOrder, LAMBDA k : k \in DOMAIN d)
    IN  [i \in 1..Len(keys) |-> <<keys[i], d[keys[i]]>>]

\* json.load(f): the dict the text denotes
json_load(text) ==
    [k \in {text[i][1] : i \in DOMAIN text} |->
        LET i == CHOOSE j \in DOMAIN text : text[j][1] = k IN text[i][2]]

NoFile == [exists |-> FALSE, text |-> <<>>]

FileOf(text) == [exists |-> TRUE, text |-> text]

\* the value _cargar_tokens() returns for a state of the token file
_cargar_tokens(f) == IF f.exists THEN Dict(json_load(f.text)) ELSE PyNone

\* reading self.tokens when __init__ never assigned it raises AttributeError
_guardar_tokens(m) ==
    IF m.tokens.kind = "unset" THEN Raise(m, "AttributeError", 0)
    ELSE IF Truthy(m.tokens) THEN [m EXCEPT !.file = FileOf(json_dump(m.tokens.d))]
    ELSE m

-----------------------------------------------------------------------------
(* Session: authenticate, refresh_token, token_expired, get_access_token *)

authenticate(m) ==
    UNION {
        LET m1 == Exchange(m, d, TokenEv("password", m.username, r))
        IN  IF r.status = 0 THEN {Raise(m1, "ConnectionError", 0)}
            ELSE IF raise_for_status(r.status) THEN {Raise(m1, "HTTPError", r.status)}
            ELSE LET m2 == [m1 EXCEPT !.tokens = Dict(r.json)]
                 IN  IF "expires_in" \notin DOMAIN r.json
                     THEN {Raise(m2, "KeyError", 0)}
                     ELSE LET m3 == [m2 EXCEPT !.tokens =
                                       Dict(SetItem(r.json, "expires_at",
                                                    m2.clock + r.json["expires_in"]))]
                          IN  {[_guardar_tokens(Log(m3, CallEv("_guardar_tokens", "authenticate")))
                                  EXCEPT !.ret = "self.tokens"]}
        : d \in Waits(m), r \in TokenReplies }

\* refresh_token that forgets the TokenSet when the server rejects the grant
refresh_token_clearing(m) ==
    IF m.tokens.kind = "unset" THEN {Raise(m, "AttributeError", 0)}
    ELSE IF ~Truthy(m.tokens) \/ "refresh_token" \notin DOMAIN m.tokens.d
    THEN {Raise(m, "RuntimeError", 0)}
    ELSE UNION {
        LET m1 == Exchange(m, d, TokenEv("refresh_token", m.tokens.d["refresh_token"], r))
        IN  IF r.status = 0 THEN {Raise(m1, "ConnectionError", 0)}
            ELSE IF raise_for_status(r.status)
            THEN {Raise([m1 EXCEPT !.tokens = PyNone], "HTTPError", r.status)}
            ELSE LET m2 == [m1 EXCEPT !.tokens = Dict(r.json)]
                 IN  IF "expires_in" \notin DOMAIN r.json
                     THEN {Raise(m2, "KeyError", 0)}
                     ELSE LET m3 == [m2 EXCEPT !.tokens =
                                       Dict(SetItem(r.json, "expires_at",
                                                    m2.clock + r.json["expires_in"]))]
                          IN  {[_guardar_tokens(Log(m3, CallEv("_guardar_tokens", "refresh_token")))
                                  EXCEPT !.ret = "self.tokens"]}
        : d \in Waits(m), r \in TokenReplies }

refresh_token(m) ==
    IF m.tokens.kind = "unset" THEN {Raise(m, "AttributeError", 0)}
    ELSE IF ~Truthy(m.tokens) \/ "refresh_token" \notin DOMAIN m.tokens.d
    THEN {Raise(m, "RuntimeError", 0)}
    ELSE UNION {
        LET m1 == Exchange(m, d, TokenEv("refresh_token", m.tokens.d["refresh_token"], r))
        IN  IF r.status = 0 THEN {Raise(m1, "ConnectionError", 0)}
            ELSE IF raise_for_status(r.status) THEN {Raise(m1, "HTTPError", r.status)}
            ELSE LET m2 == [m1 EXCEPT !.tokens = Dict(r.json)]
                 IN  IF "expires_in" \notin DOMAIN r.json
                     THEN {Raise(m2, "KeyError", 0)}
                     ELSE LET m3 == [m2 EXCEPT !.tokens =
                                       Dict(SetItem(r.json, "expires_at",
                                                    m2.clock + r.json["expires_in"]))]
                          IN  {[_guardar_tokens(Log(m3, CallEv("_guardar_tokens", "refresh_token")))
                                  EXCEPT !.ret = "self.tokens"]}
        : d \in Waits(m), r \in TokenReplies }

\* token_expired that finds every TokenSet expired
token_expired_always(m) == TRUE

\* token_expired that takes a TokenSet to be valid at expires_at itself
token_expired_late(m) ==
    ~Truthy(m.tokens) \/ m.clock > DictGet(m.tokens.d, "expires_at", 0)

\* token_expired with its comparison turned around
token_expired_inverted(m) ==
    ~Truthy(m.tokens) \/ m.clock <= DictGet(m.tokens.d, "expires_at", 0)

\* the value of the expression on line 157, for a client whose tokens
\* attribute is set
token_expired(m) ==
    ~Truthy(m.tokens) \/ m.clock >= DictGet(m.tokens.d, "expires_at", 0)

\* token_expired() called from outside: bool(...) of line 157
token_expired_call(m) ==
    IF m.tokens.kind = "unset" THEN Raise(m, "AttributeError", 0)
    ELSE [m EXCEPT !.ret = IF token_expired(m) THEN "True" ELSE "False"]

\* HasRefreshToken that never finds the key
HasRefreshToken_never(m) == FALSE

\* line 165: the branch get_access_token() takes on an expired token
HasRefreshToken(m) == Truthy(m.tokens) /\ "refresh_token" \in DOMAIN m.tokens.d

\* get_access_token that authenticates when the server rejects the refresh
get_access_token_reauth(m) ==
    IF m.tokens.kind = "unset" THEN {Raise(m, "AttributeError", 0)}
    ELSE LET after ==
                 IF token_expired(m)
                 THEN IF HasRefreshToken(m)
                      THEN UNION {
                          IF m1.exc.type = "HTTPError"
                          THEN authenticate(Log([m1 EXCEPT !.exc = NoExc],
                                                CallEv("authenticate", "get_access_token")))
                          ELSE {m1}
                          : m1 \in refresh_token(Log(m, CallEv("refresh_token",
                                                               "get_access_token"))) }
                      ELSE authenticate(Log(m, CallEv("authenticate", "get_access_token")))
                 ELSE {m}
         IN  { IF m2.exc # NoExc THEN m2
               ELSE IF "access_token" \notin DOMAIN m2.tokens.d THEN Raise(m2, "KeyError", 0)
               ELSE [m2 EXCEPT !.ret = m2.tokens.d["access_token"]]
               : m2 \in after }

get_access_token(m) ==
    IF m.tokens.kind = "unset" THEN {Raise(m, "AttributeError", 0)}
    ELSE LET after ==
                 IF token_expired(m)
                 THEN IF HasRefreshToken(m)
                      THEN refresh_token(Log(m, CallEv("refresh_token", "get_access_token")))
                      ELSE authenticate(Log(m, CallEv("authenticate", "get_access_token")))
                 ELSE {m}
         IN  { IF m2.exc # NoExc THEN m2
               ELSE IF "access_token" \notin DOMAIN m2.tokens.d THEN Raise(m2, "KeyError", 0)
               ELSE [m2 EXCEPT !.ret = m2.tokens.d["access_token"]]
               : m2 \in after }

\* _auth_headers that takes the token in memory as it is
_auth_headers_unchecked(m) ==
    IF m.tokens.kind = "unset" THEN {Raise(m, "AttributeError", 0)}
    ELSE IF "access_token" \notin DOMAIN m.tokens.d THEN {Raise(m, "KeyError", 0)}
    ELSE {[m EXCEPT !.ret = m.tokens.d["access_token"]]}

\* the machine's ret is the token of the Authorization: Bearer header
_auth_headers(m) == get_access_token(m)

-----------------------------------------------------------------------------
(* Authenticated requests *)

\* self.api_url; a str is the sequence of its characters
ApiUrl == <<"h">>

\* lstrip that strips nothing
lstrip_nothing(s) == s

\* s.lstrip('/'): s without its leading "/" characters
lstrip(s) ==
    LET n == CHOOSE k \in 0..Len(s) :
                 /\ \A i \in 1..k : s[i] = "/"
                 /\ (k = Len(s) \/ s[k + 1] # "/")
    IN  SubSeq(s, n + 1, Len(s))

\* lines 179 and 197: f"{self.api_url}/{endpoint.lstrip('/')}"
Url(base, e) == base \o <<"/">> \o lstrip(e)

\* Unauthorized that takes every 4xx and 5xx answer for a rejected token
Unauthorized_any_error(status) == status >= 400

\* line 184 / line 202: the answer that makes the client refresh and retry
Unauthorized(status) == status = 401

\* Finish without the raise_for_status() of line 188
Finish_unchecked(m, r) == [m EXCEPT !.ret = r.body]

\* lines 188 and 194: the final response raises or its payload is returned
Finish(m, r) ==
    IF raise_for_status(r.status) THEN Raise(m, "HTTPError", r.status)
    ELSE [m EXCEPT !.ret = r.body]

get(m, e) ==
    UNION {
        IF m1.exc # NoExc THEN {m1}
        ELSE UNION {
            LET m2 == Log(m1, ResourceEv("GET", Url(ApiUrl, e), m1, r1))
            IN  IF r1.status = 0 THEN {Raise(m2, "ConnectionError", 0)}
                ELSE IF Unauthorized(r1.status)
                THEN UNION {
                    IF m3.exc # NoExc THEN {m3}
                    ELSE UNION {
                        IF m4.exc # NoExc THEN {m4}
                        ELSE { LET m5 == Log(m4, ResourceEv("GET", Url(ApiUrl, e), m4, r2))
                               IN  IF r2.status = 0 THEN Raise(m5, "ConnectionError", 0)
                                   ELSE Finish(m5, r2)
                               : r2 \in ResourceReplies }
                        : m4 \in _auth_headers(m3) }
                    : m3 \in refresh_token(Log(m2, CallEv("refresh_token", "get"))) }
                ELSE {Finish(m2, r1)}
            : r1 \in ResourceReplies }
        : m1 \in _auth_headers(m) }

post(m, e) ==
    UNION {
        IF m1.exc # NoExc THEN {m1}
        ELSE UNION {
            LET m2 == Log(m1, ResourceEv("POST", Url(ApiUrl, e), m1, r1))
            IN  IF r1.status = 0 THEN {Raise(m2, "ConnectionError", 0)}
                ELSE IF Unauthorized(r1.status)
                THEN UNION {
                    IF m3.exc # NoExc THEN {m3}
                    ELSE UNION {
                        IF m4.exc # NoExc THEN {m4}
                        ELSE { LET m5 == Log(m4, ResourceEv("POST", Url(ApiUrl, e), m4, r2))
                               IN  IF r2.status = 0 THEN Raise(m5, "ConnectionError", 0)
                                   ELSE Finish(m5, r2)
                               : r2 \in ResourceReplies }
                        : m4 \in _auth_headers(m3) }
                    : m3 \in refresh_token(Log(m2, CallEv("refresh_token", "post"))) }
                ELSE {Finish(m2, r1)}
            : r1 \in ResourceReplies }
        : m1 \in _auth_headers(m) }


-----------------------------------------------------------------------------
(* Construction and the with block *)

\* __init__(username=argUser, password=argPass) was called
InitEv(argUser, argPass) ==
    [ev |-> "call", name |-> "__init__", site |-> "caller",
     username |-> argUser, password |-> argPass]

\* Credential without the fallback to the environment
Credential_argument_only(arg, envvar) == arg

\* lines 57-58: an argument that is None or empty falls back to the environment
Credential(arg, envvar) == PyOr(arg, envvar)

\* The client __init__ leaves behind, envUser and envPass being what
\* os.getenv returns (read only when the argument is falsy).  It assigns
\* api_url, username, password and log_level and nothing else, so
\* self.tokens stays unset.
__init__(m, argUser, argPass, envUser, envPass) ==
    LET m1 == IF StrTruthy(argUser) THEN m
              ELSE Log(m, GetenvEv("IOL_USERNAME", envUser))
        m2 == IF StrTruthy(argPass) THEN m1
              ELSE Log(m1, GetenvEv("IOL_PASSWORD", envPass))
        m3 == [m2 EXCEPT !.username = Credential(argUser, envUser),
                         !.password = Credential(argPass, envPass)]
    IN  IF ~StrTruthy(m3.username) \/ ~StrTruthy(m3.password)
        THEN Raise(m3, "ValueError", 0)
        ELSE m3

\* __exit__ returns False: the exception it was entered with goes on to the
\* caller, unless _guardar_tokens() raised first
__exit__(m, entered) ==
    LET m1 == _guardar_tokens(Log(m, CallEv("_guardar_tokens", "__exit__")))
    IN  IF m1.exc # NoExc THEN m1
        ELSE [m1 EXCEPT !.exc = entered]

-----------------------------------------------------------------------------
(* The state machine *)

\* the values of an argument of __init__, and of an environment variable
ArgUsers == {None, "", "arg-user"}

ArgPasswords == {None, "", "secret"}

EnvUsers == {None, "", "env-user"}

EnvPasswords == {None, "", "secret"}

\* the endpoint argument of get() and post() in a run of the client
Endpoints == {<<"/", "x">>}

\* a token file a previous run of the client left behind
StaleFile == FileOf(json_dump(SetItem(TokenJson("A1", Lifetime), "expires_at", 0)))

Init ==
    /\ phase = "none"
    /\ username = None
    /\ password = None
    /\ tokens = Unset
    /\ file \in {NoFile, StaleFile}
    /\ clock = 0
    /\ call = "idle"
    /\ trace = <<>>
    /\ exc = NoExc
    /\ ret = ""
    /\ inflight = NoExc
    /\ endpoint = <<>>

\* the machine a call starts from
Self ==
    [username |-> username, password |-> password, tokens |-> tokens, file |-> file,
     clock |-> clock, trace |-> <<>>, exc |-> NoExc, ret |-> ""]

\* the state a call leaves
Commit(name, m) ==
    /\ call' = name
    /\ username' = m.username
    /\ password' = m.password
    /\ tokens' = m.tokens
    /\ file' = m.file
    /\ clock' = m.clock
    /\ trace' = m.trace
    /\ exc' = m.exc
    /\ ret' = m.ret

\* the caller is between two calls
AtRest == phase = "alive" /\ call \in {"idle", "__init__", "__enter__"}

Construct ==
    /\ phase = "none"
    /\ \E argUser \in ArgUsers, argPass \in ArgPasswords,
          envUser \in EnvUsers, envPass \in EnvPasswords :
          LET m == __init__(Log(Self, InitEv(argUser, argPass)),
                            argUser, argPass, envUser, envPass)
          IN  /\ Commit("__init__", m)
              /\ phase' = IF m.exc = NoExc THEN "alive" ELSE "none"
    /\ UNCHANGED <<inflight, endpoint>>

\* __enter__ returns self
Enter ==
    /\ AtRest
    /\ Commit("__enter__", Self)
    /\ UNCHANGED <<phase, inflight, endpoint>>

\* The with block ends: with the exception the last call raised, or without
\* one.
Exit ==
    /\ phase = "alive"
    /\ \E entered \in {NoExc, exc} :
          /\ Commit("__exit__", __exit__(Self, entered))
          /\ inflight' = entered
    /\ phase' = "closed"
    /\ UNCHANGED endpoint

CallAuthenticate ==
    /\ AtRest
    /\ \E m \in authenticate(Log(Self, CallEv("authenticate", "caller"))) :
          Commit("authenticate", m)
    /\ UNCHANGED <<phase, inflight, endpoint>>

CallRefreshToken ==
    /\ AtRest
    /\ \E m \in refresh_token(Log(Self, CallEv("refresh_token", "caller"))) :
          Commit("refresh_token", m)
    /\ UNCHANGED <<phase, inflight, endpoint>>

CallTokenExpired ==
    /\ AtRest
    /\ Commit("token_expired", token_expired_call(Self))
    /\ UNCHANGED <<phase, inflight, endpoint>>

CallGetAccessToken ==
    /\ AtRest
    /\ \E m \in get_access_token(Self) : Commit("get_access_token", m)
    /\ UNCHANGED <<phase, inflight, endpoint>>

\* get(endpoint) with an endpoint of E
GetOf(E) ==
    /\ AtRest
    /\ \E e \in E :
          /\ \E m \in get(Self, e) : Commit("get", m)
          /\ endpoint' = e
    /\ UNCHANGED <<phase, inflight>>

\* post(endpoint) with an endpoint of E
PostOf(E) ==
    /\ AtRest
    /\ \E e \in E :
          /\ \E m \in post(Self, e) : Commit("post", m)
          /\ endpoint' = e
    /\ UNCHANGED <<phase, inflight>>

CallGet == GetOf(Endpoints)

CallPost == PostOf(Endpoints)

\* the caller takes the result of the last call and goes on
Resume ==
    /\ phase = "alive"
    /\ call # "idle"
    /\ call' = "idle"
    /\ trace' = <<>>
    /\ exc' = NoExc
    /\ ret' = ""
    /\ endpoint' = <<>>
    /\ UNCHANGED <<phase, username, password, tokens, file, clock, inflight>>

\* time passes between two calls
Tick ==
    /\ phase = "alive"
    /\ call = "idle"
    /\ clock < MaxClock
    /\ clock' = clock + 1
    /\ UNCHANGED <<phase, username, password, tokens, file, call, trace, exc, ret, inflight,
                   endpoint>>

Next ==
    \/ Construct
    \/ Enter
    \/ Exit
    \/ CallAuthenticate
    \/ CallRefreshToken
    \/ CallTokenExpired
    \/ CallGetAccessToken
    \/ CallGet
    \/ CallPost
    \/ Resume
    \/ Tick

Spec == Init /\ [][Next]_vars

-----------------------------------------------------------------------------
(* The request URL: one authenticated request for every endpoint string *)

MaxPath == 3

\* the strings of "/" and "x" of at most MaxPath characters
Paths == UNION {[1..n -> {"/", "x"}] : n \in 0..MaxPath}

\* a client that authenticated at time 0, some time later
InitUrl ==
    LET tk == SetItem(TokenJson("A1", Lifetime), "expires_at", Lifetime)
    IN  /\ phase = "alive"
        /\ username = "arg-user"
        /\ password = "secret"
        /\ tokens = Dict(tk)
        /\ file = FileOf(json_dump(tk))
        /\ clock \in 0..MaxClock
        /\ call = "idle"
        /\ trace = <<>>
        /\ exc = NoExc
        /\ ret = ""
        /\ inflight = NoExc
        /\ endpoint = <<>>

UrlGet == GetOf(Paths)

UrlPost == PostOf(Paths)

NextUrl ==
    \/ UrlGet
    \/ UrlPost

SpecUrl == InitUrl /\ [][NextUrl]_vars

-----------------------------------------------------------------------------
(* A caller that keeps calling get() while the server rejects every refresh *)

\* The answers of a server that rejects every refresh grant, accepts every
\* password grant with a TokenSet of the contract that lasts, and answers
\* 200 to a resource request that carries a token it granted in this call
\* (401 to any other).
RejectsRefresh(tr) ==
    \A j \in DOMAIN tr :
        tr[j].ev = "req" =>
            CASE tr[j].name = "refresh_token" -> tr[j].status = 401
              [] tr[j].name = "password" ->
                    tr[j].status = 200 /\ tr[j].json = TokenJson("A1", Lifetime)
              [] OTHER ->
                    LET granted == \E i \in 1..(j - 1) :
                                       /\ tr[i].ev = "req"
                                       /\ tr[i].name = "password"
                                       /\ tr[i].json["access_token"] = tr[j].cred
                    IN  tr[j].status = (IF granted THEN 200 ELSE 401)

\* a client whose TokenSet, obtained at time t0 with a refresh token, has
\* run out
InitLive ==
    /\ phase = "alive"
    /\ username \in {"arg-user", "env-user"}
    /\ password = "secret"
    /\ \E p \in Payloads, t0 \in 0..MaxClock :
          /\ {"refresh_token", "expires_in"} \subseteq DOMAIN p
          /\ tokens = Dict(SetItem(p, "expires_at", t0 + p["expires_in"]))
          /\ file = FileOf(json_dump(tokens.d))
          /\ clock \in t0..MaxClock
          /\ clock >= tokens.d["expires_at"]
    /\ call = "idle"
    /\ trace = <<>>
    /\ exc = NoExc
    /\ ret = ""
    /\ inflight = NoExc
    /\ endpoint = <<>>

\* get(), with any endpoint, against that server
LiveGet ==
    /\ AtRest
    /\ \E e \in Paths :
          /\ \E m \in get(Self, e) : RejectsRefresh(m.trace) /\ Commit("get", m)
          /\ endpoint' = e
    /\ UNCHANGED <<phase, inflight>>

NextLive ==
    \/ LiveGet
    \/ Resume
    \/ Tick

\* the caller takes each result and calls get() again
SpecLive == InitLive /\ [][NextLive]_vars /\ WF_vars(LiveGet) /\ WF_vars(Resume)

-----------------------------------------------------------------------------
(* Vocabulary of the properties: what a call did, read off its events *)

\* the resource requests of a call, in the order sent
Resource(tr) == SelectSeq(tr, LAMBDA e : e.ev = "req" /\ e.name \in {"GET", "POST"})

\* its requests to the token endpoint
TokenRequests(tr) ==
    SelectSeq(tr, LAMBDA e : e.ev = "req" /\ e.name \in {"password", "refresh_token"})

\* its requests to the token endpoint with one grant type
Grants(tr, grant) == SelectSeq(tr, LAMBDA e : e.ev = "req" /\ e.name = grant)

\* its calls of a method
CallsOf(tr, name) == SelectSeq(tr, LAMBDA e : e.ev = "call" /\ e.name = name)

\* its calls of a method made from one place
CallsFrom(tr, name, site) ==
    SelectSeq(tr, LAMBDA e : e.ev = "call" /\ e.name = name /\ e.site = site)

\* the events before its first resource request (all of them if it sent none)
BeforeResource(tr) ==
    LET at == {i \in DOMAIN tr : tr[i].ev = "req" /\ tr[i].name \in {"GET", "POST"}}
    IN  IF at = {} THEN tr
        ELSE SubSeq(tr, 1, (CHOOSE i \in at : \A j \in at : i <= j) - 1)

\* a reply of the token endpoint that keeps the contract of the endpoint
Granted(e) ==
    /\ e.status = 200
    /\ {"access_token", "refresh_token", "expires_in", "token_type"} \subseteq DOMAIN e.json

\* the TokenSet in memory is held, and not expired on the clock
HeldFresh(tk, now) ==
    /\ tk.kind = "dict"
    /\ "expires_at" \in DOMAIN tk.d
    /\ now < tk.d["expires_at"]

\* the TokenSet in memory is held, and its expires_at is reached
HeldExpired(tk, now) ==
    /\ tk.kind = "dict"
    /\ "expires_at" \in DOMAIN tk.d
    /\ now >= tk.d["expires_at"]

-----------------------------------------------------------------------------
(* C1 *)

\* C1 as stated: get() or post() called with a TokenSet that is not expired
\* and holds a refresh token, whose first resource response is 401 and
\* second is 200, made exactly one refresh_token() call and one retry of the
\* same request, the retry carried the access token that refresh returned,
\* and the call returned the payload of the 200 response.
C1_Original ==
    [][ ( /\ call' \in {"get", "post"}
          /\ HeldFresh(tokens, clock)
          /\ "refresh_token" \in DOMAIN tokens.d
          /\ Len(Resource(trace')) = 2
          /\ Resource(trace')[1].status = 401
          /\ Resource(trace')[2].status = 200 )
        => ( /\ Len(CallsOf(trace', "refresh_token")) = 1
             /\ Len(Grants(trace', "refresh_token")) = 1
             /\ Resource(trace')[2].name = Resource(trace')[1].name
             /\ Resource(trace')[2].cred
                    = Grants(trace', "refresh_token")[1].json["access_token"]
             /\ exc' = NoExc
             /\ ret' = Resource(trace')[2].body ) ]_vars

\* C1 (amended): the same, when moreover the TokenSet that the refresh after
\* the 401 returns has expires_in > 0.  (A TokenSet returned with
\* expires_in <= 0 is expired when the retry asks for its token, and
\* get_access_token() obtains another one before the retry.)
C1_SingleRefreshAndRetry ==
    [][ ( /\ call' \in {"get", "post"}
          /\ HeldFresh(tokens, clock)
          /\ "refresh_token" \in DOMAIN tokens.d
          /\ Len(Resource(trace')) = 2
          /\ Resource(trace')[1].status = 401
          /\ Resource(trace')[2].status = 200
          /\ Len(Grants(trace', "refresh_token")) >= 1
          /\ DictGet(Grants(trace', "refresh_token")[1].json, "expires_in", 0) > 0 )
        => ( /\ Len(CallsOf(trace', "refresh_token")) = 1
             /\ Len(TokenRequests(trace')) = 1
             /\ Resource(trace')[2].name = Resource(trace')[1].name
             /\ Resource(trace')[2].cred
                    = Grants(trace', "refresh_token")[1].json["access_token"]
             /\ exc' = NoExc
             /\ ret' = Resource(trace')[2].body ) ]_vars

\* a get() or post() that started on the resource request (its token was not
\* expired), was answered 401, refreshed once, retried and returned the
\* payload of the 200
C1_Witness ==
    /\ call \in {"get", "post"}
    /\ Len(trace) = 5
    /\ trace[1].ev = "req" /\ trace[1].status = 401
    /\ trace[2].ev = "call" /\ trace[2].name = "refresh_token"
    /\ trace[3].ev = "req" /\ trace[3].name = "refresh_token" /\ trace[3].status = 200
    /\ trace[4].ev = "call" /\ trace[4].name = "_guardar_tokens"
    /\ trace[5].ev = "req" /\ trace[5].status = 200
    /\ trace[5].cred = trace[3].json["access_token"]
    /\ trace[5].cred # trace[1].cred
    /\ exc = NoExc
    /\ ret = "B200"

-----------------------------------------------------------------------------
(* C2 *)

\* C2 as stated: a get() or post() whose first request and retry were both
\* answered 401 failed with an error of status 401, having made exactly one
\* refresh_token() call and one retry, and sent no third resource request.
C2_Original ==
    ( /\ call \in {"get", "post"}
      /\ Len(Resource(trace)) >= 2
      /\ Resource(trace)[1].status = 401
      /\ Resource(trace)[2].status = 401 )
    => ( /\ exc = Exc("HTTPError", 401)
         /\ Len(CallsOf(trace, "refresh_token")) = 1
         /\ Len(Resource(trace)) = 2 )

\* C2 (amended): no get() or post() sends a third resource request; one whose
\* first request and retry were both answered 401 failed with an error of
\* status 401 after exactly one retry and exactly one refresh_token() call
\* made in answer to the 401.  Its other requests to the token endpoint, at
\* most one before each of the two attempts, are those get_access_token()
\* makes when the TokenSet it finds is expired.
C2_SecondUnauthorizedFails ==
    call \in {"get", "post"} =>
        /\ Len(Resource(trace)) <= 2
        /\ ( /\ Len(Resource(trace)) = 2
             /\ Resource(trace)[1].status = 401
             /\ Resource(trace)[2].status = 401 )
           => ( /\ exc = Exc("HTTPError", 401)
                /\ Len(CallsFrom(trace, "refresh_token", call)) = 1
                /\ Len(CallsOf(trace, "refresh_token")) + Len(CallsOf(trace, "authenticate"))
                     = 1 + Len(CallsFrom(trace, "refresh_token", "get_access_token"))
                         + Len(CallsFrom(trace, "authenticate", "get_access_token"))
                /\ Len(CallsFrom(trace, "refresh_token", "get_access_token"))
                     + Len(CallsFrom(trace, "authenticate", "get_access_token")) <= 2
                /\ Len(BeforeResource(trace)) <= 3 )

\* a call answered 401 twice that made two refresh_token() calls: one because
\* its TokenSet was expired, one in answer to the first 401
C2_Witness ==
    /\ call \in {"get", "post"}
    /\ Len(Resource(trace)) = 2
    /\ Resource(trace)[1].status = 401
    /\ Resource(trace)[2].status = 401
    /\ Len(CallsFrom(trace, "refresh_token", "get_access_token")) = 1
    /\ Len(CallsFrom(trace, "refresh_token", call)) = 1
    /\ exc = Exc("HTTPError", 401)

-----------------------------------------------------------------------------
(* C3 *)

\* C3 as stated: in every state the with block can end in, __exit__ attempts
\* the token save exactly once, and the exception the enclosed work raised
\* is the exception the caller sees.
C3_Original ==
    call = "__exit__" =>
        /\ Len(CallsOf(trace, "_guardar_tokens")) = 1
        /\ inflight # NoExc => exc = inflight

-----------------------------------------------------------------------------
(* C4 *)

\* C4 as stated: get() or post() on a client that holds no TokenSet makes
\* exactly one password-grant request and no refresh_token() call before its
\* resource request, and the resource request carries the access token the
\* password grant returned.
C4_Original ==
    [][ ( /\ call' \in {"get", "post"}
          /\ ~Truthy(tokens) )
        => ( /\ Len(Grants(BeforeResource(trace'), "password")) = 1
             /\ Len(CallsOf(BeforeResource(trace'), "refresh_token")) = 0
             /\ Resource(trace') # <<>> =>
                    Resource(trace')[1].cred
                        = DictGet(Grants(trace', "password")[1].json, "access_token", "") ) ]_vars

-----------------------------------------------------------------------------
(* C5 *)

\* C5 as stated: right after the constructor returns, the TokenSet in memory
\* is the one _cargar_tokens() reads from the token file, and the absent
\* value when there is no file.
C5_Original ==
    (call = "__init__" /\ exc = NoExc) => tokens = _cargar_tokens(file)

-----------------------------------------------------------------------------
(* C6 *)

\* C6 as stated: refresh_token() called with no TokenSet in memory, or with
\* one without a refresh token, raises RuntimeError, sends nothing to the
\* token endpoint and leaves the TokenSet and the token file as they were.
C6_Original ==
    [][ ( /\ call' = "refresh_token"
          /\ (~Truthy(tokens) \/ "refresh_token" \notin DOMAIN tokens.d) )
        => ( /\ exc' = Exc("RuntimeError", 0)
             /\ TokenRequests(trace') = <<>>
             /\ tokens' = tokens
             /\ file' = file ) ]_vars

-----------------------------------------------------------------------------
(* C7 *)

\* what os.getenv(name) returned to the call (None if it was not read)
EnvRead(tr, name) ==
    LET reads == SelectSeq(tr, LAMBDA e : e.ev = "getenv" /\ e.name = name)
    IN  IF reads = <<>> THEN None ELSE reads[1].value

\* C7 as stated: a constructor call whose username or password argument is
\* empty raises ValueError and makes no network call, whatever
\* IOL_USERNAME and IOL_PASSWORD are.
C7_Original ==
    ( /\ call = "__init__"
      /\ (trace[1].username = "" \/ trace[1].password = "") )
    => ( /\ exc = Exc("ValueError", 0)
         /\ TokenRequests(trace) = <<>>
         /\ Resource(trace) = <<>> )

\* C7 (amended): the constructor never makes a network call, and raises
\* ValueError exactly when the username or the password in effect is empty
\* or None: in effect is the argument, or, when the argument is empty or
\* None, the value of IOL_USERNAME / IOL_PASSWORD.  A call with an empty
\* argument whose environment variable is set constructs the client with
\* the value of the variable.
C7_EffectiveCredentials ==
    call = "__init__" =>
        LET argUser == trace[1].username
            argPass == trace[1].password
            user == IF argUser \notin {None, ""} THEN argUser
                    ELSE EnvRead(trace, "IOL_USERNAME")
            pass == IF argPass \notin {None, ""} THEN argPass
                    ELSE EnvRead(trace, "IOL_PASSWORD")
        IN  /\ TokenRequests(trace) = <<>>
            /\ Resource(trace) = <<>>
            /\ exc \in {NoExc, Exc("ValueError", 0)}
            /\ exc = Exc("ValueError", 0) <=> (user \in {None, ""} \/ pass \in {None, ""})
            /\ exc = NoExc => (username = user /\ password = pass /\ phase = "alive")
            /\ exc # NoExc => phase = "none"

\* a client constructed with an empty username argument, from IOL_USERNAME
C7_Witness ==
    /\ call = "__init__"
    /\ trace[1].username = ""
    /\ EnvRead(trace, "IOL_USERNAME") = "env-user"
    /\ exc = NoExc
    /\ username = "env-user"
    /\ phase = "alive"

-----------------------------------------------------------------------------
(* C8 *)

\* C8: of a TokenSet obtained with expires_in > 0, expires_at is the clock
\* of the successful authenticate() / refresh_token() plus expires_in, and
\* token_expired() is false right after that call; whenever token_expired()
\* is called on such a TokenSet it returns False while the clock is below
\* expires_at and True once the clock is at or past it.
C8_ExpiryCorrect ==
    ( /\ tokens.kind = "dict"
      /\ {"expires_in", "expires_at"} \subseteq DOMAIN tokens.d
      /\ tokens.d["expires_in"] > 0 )
    => ( /\ (call \in {"authenticate", "refresh_token"} /\ exc = NoExc)
            => ( /\ tokens.d["expires_at"] = clock + tokens.d["expires_in"]
                 /\ ~token_expired(Self) )
         /\ call = "token_expired"
            => ( /\ exc = NoExc
                 /\ ret \in {"True", "False"}
                 /\ ret = "True" <=> clock >= tokens.d["expires_at"] ) )

\* token_expired() returned True at the very time expires_at of a TokenSet
\* that was obtained with expires_in > 0
C8_Witness ==
    /\ call = "token_expired"
    /\ tokens.kind = "dict"
    /\ {"expires_in", "expires_at"} \subseteq DOMAIN tokens.d
    /\ tokens.d["expires_in"] > 0
    /\ clock = tokens.d["expires_at"]
    /\ ret = "True"

-----------------------------------------------------------------------------
(* C9 *)

\* C9: a get() called with a TokenSet whose expires_at is reached and which
\* holds a refresh token, the server granting the first token request of the
\* call, sends before its GET exactly one refresh-grant request (with the
\* refresh token held) and no password-grant request, and the GET carries the
\* access token that refresh returned; when the GET is not answered 401
\* these are all the requests of the call.
C9_RefreshBeforeGet ==
    [][ ( /\ call' = "get"
          /\ HeldExpired(tokens, clock)
          /\ "refresh_token" \in DOMAIN tokens.d
          /\ TokenRequests(trace') # <<>>
          /\ Granted(TokenRequests(trace')[1]) )
        => ( /\ Resource(trace') # <<>>
             /\ Resource(trace')[1].name = "GET"
             /\ Len(CallsOf(BeforeResource(trace'), "refresh_token")) = 1
             /\ Len(Grants(BeforeResource(trace'), "refresh_token")) = 1
             /\ Grants(trace', "refresh_token")[1].cred = tokens.d["refresh_token"]
             /\ Len(CallsOf(BeforeResource(trace'), "authenticate")) = 0
             /\ Len(Grants(BeforeResource(trace'), "password")) = 0
             /\ Resource(trace')[1].cred
                    = Grants(trace', "refresh_token")[1].json["access_token"]
             /\ Resource(trace')[1].status # 401
                    => (Len(TokenRequests(trace')) = 1 /\ Len(Resource(trace')) = 1) ) ]_vars

\* a get() that refreshed an expired TokenSet, sent the GET with the new
\* token and returned its payload
C9_Witness ==
    /\ call = "get"
    /\ Len(trace) = 4
    /\ trace[1].ev = "call" /\ trace[1].name = "refresh_token"
    /\ trace[1].site = "get_access_token"
    /\ trace[2].ev = "req" /\ trace[2].name = "refresh_token" /\ Granted(trace[2])
    /\ trace[4].ev = "req" /\ trace[4].name = "GET" /\ trace[4].status = 200
    /\ trace[4].cred = trace[2].json["access_token"]
    /\ exc = NoExc
    /\ ret = "B200"

-----------------------------------------------------------------------------
(* C10 *)

-----------------------------------------------------------------------------
(* C11 *)

\* the token endpoint answered, and with a status outside 200..299
NonSuccess(e) == e.status # 0 /\ ~(200 <= e.status /\ e.status < 300)

\* C11 as stated: an authenticate() whose request to the token endpoint was
\* answered with a status outside 2xx fails with an error after exactly one
\* password-grant request, and leaves the TokenSet in memory and the token
\* file exactly as they were before the call.
C11_Original ==
    [][ ( /\ call' = "authenticate"
          /\ TokenRequests(trace') # <<>>
          /\ NonSuccess(TokenRequests(trace')[1]) )
        => ( /\ exc' # NoExc
             /\ Len(TokenRequests(trace')) = 1
             /\ TokenRequests(trace')[1].name = "password"
             /\ tokens' = tokens
             /\ file' = file ) ]_vars

-----------------------------------------------------------------------------
(* C12 *)

\* C12 as stated: after every successful authenticate() or refresh_token()
\* the token file exists and _cargar_tokens() reads from it a value equal to
\* the TokenSet in memory, expires_at included; and between any two
\* operations, whenever a TokenSet is held in memory, the content of the file
\* equals it.
C12_Original ==
    /\ (call \in {"authenticate", "refresh_token"} /\ exc = NoExc)
       => (file.exists /\ _cargar_tokens(file) = tokens)
    /\ Truthy(tokens)
       => (file.exists /\ _cargar_tokens(file) = tokens)

-----------------------------------------------------------------------------
(* C13 *)

\* C13 as stated: a get() or post() whose first resource response has a
\* status outside 2xx other than 401 fails with an error that carries that
\* status after exactly one resource request: it sends no retry, makes no
\* refresh_token() call in answer to the response, and ends with the
\* TokenSet that was in memory when the request went out.
C13_Original ==
    [][ ( /\ call' \in {"get", "post"}
          /\ Resource(trace') # <<>>
          /\ NonSuccess(Resource(trace')[1])
          /\ Resource(trace')[1].status # 401 )
        => ( /\ exc' = Exc("HTTPError", Resource(trace')[1].status)
             /\ Len(Resource(trace')) = 1
             /\ CallsFrom(trace', "refresh_token", call') = <<>>
             /\ tokens'.d = Resource(trace')[1].held ) ]_vars

-----------------------------------------------------------------------------
(* C14 *)

\* C14: for every endpoint path e without a leading "/", a get() or post()
\* called with e and one called with "/" + e send each of their resource
\* requests, the retry included, to the same URL: the base URL, one "/",
\* then e.
C14_UrlJoin ==
    call \in {"get", "post"} =>
        LET e == IF endpoint # <<>> /\ Head(endpoint) = "/" THEN Tail(endpoint)
                 ELSE endpoint
        IN  (e = <<>> \/ Head(e) # "/")
            => \A i \in DOMAIN Resource(trace) :
                   Resource(trace)[i].url = ApiUrl \o <<"/">> \o e

\* a get("/x/") that sent its request and its retry to h/x/
C14_Witness ==
    /\ call = "get"
    /\ endpoint = <<"/", "x", "/">>
    /\ Len(Resource(trace)) = 2
    /\ Resource(trace)[1].url = <<"h", "/", "x", "/">>
    /\ Resource(trace)[2].url = <<"h", "/", "x", "/">>

-----------------------------------------------------------------------------
(* C15 *)

\* the places of the resource requests among the events of a call
ResourceAt(tr) == {j \in DOMAIN tr : tr[j].ev = "req" /\ tr[j].name \in {"GET", "POST"}}

\* C15 as stated: every resource request of a get() or post(), first attempt
\* and retry alike, carries the access_token of the TokenSet in memory when
\* it is sent, and the clock is then below the expires_at of that TokenSet.
C15_Original ==
    call \in {"get", "post"} =>
        \A j \in ResourceAt(trace) :
            /\ "access_token" \in DOMAIN trace[j].held
            /\ trace[j].cred = trace[j].held["access_token"]
            /\ "expires_at" \in DOMAIN trace[j].held
            /\ trace[j].sent < trace[j].held["expires_at"]

\* C15 (amended): every resource request of a get() or post() carries the
\* access_token of the TokenSet in memory when it is sent; the clock is then
\* below the expires_at of that TokenSet, except when that TokenSet is the
\* one the token endpoint has just returned to this call with
\* expires_in <= 0.  (get_access_token() refreshes or authenticates once and
\* returns the token it got without looking at its expiry.)
C15_BearerIsHeldToken ==
    call \in {"get", "post"} =>
        \A j \in ResourceAt(trace) :
            /\ "access_token" \in DOMAIN trace[j].held
            /\ trace[j].cred = trace[j].held["access_token"]
            /\ "expires_at" \in DOMAIN trace[j].held
            /\ \/ trace[j].sent < trace[j].held["expires_at"]
               \/ /\ j > 2
                  /\ trace[j - 2].ev = "req"
                  /\ trace[j - 2].name \in {"password", "refresh_token"}
                  /\ "expires_in" \in DOMAIN trace[j - 2].json
                  /\ trace[j - 2].json["expires_in"] <= 0
                  /\ trace[j - 2].json["access_token"] = trace[j].cred
                  /\ trace[j].held["expires_at"]
                         = trace[j].sent + trace[j - 2].json["expires_in"]

\* a get() whose TokenSet ran out between two calls: it refreshed, and its
\* GET carried the new token while the clock was below the new expires_at
C15_Witness ==
    /\ call = "get"
    /\ Len(trace) = 4
    /\ trace[2].ev = "req" /\ trace[2].name = "refresh_token"
    /\ trace[2].json["expires_in"] > 0
    /\ trace[4].ev = "req" /\ trace[4].name = "GET" /\ trace[4].status = 200
    /\ trace[4].cred = trace[4].held["access_token"]
    /\ trace[4].cred = trace[2].json["access_token"]
    /\ trace[4].sent > 0
    /\ trace[4].sent < trace[4].held["expires_at"]

-----------------------------------------------------------------------------
(* C16 *)

\* a dict with the five fields of a TokenSet
FullyPopulated(d) ==
    {"access_token", "refresh_token", "expires_in", "expires_at", "token_type"}
        \subseteq DOMAIN d

\* C16 as stated: in every reachable state the TokenSet in memory is absent
\* or has all of access_token, refresh_token, expires_in, expires_at and
\* token_type, and so has the content of the token file when there is one.
C16_Original ==
    /\ Truthy(tokens) => FullyPopulated(tokens.d)
    /\ file.exists => FullyPopulated(json_load(file.text))

-----------------------------------------------------------------------------
(* C17 *)

\* C17 as stated: whenever authenticate(), refresh_token() or
\* get_access_token() puts a TokenSet in memory, its expires_at is the clock
\* at that moment plus its own expires_in: not the expires_at of the TokenSet
\* it replaces, and not an expires_at field of the response.
C17_Original ==
    [][ ( /\ call' \in {"authenticate", "refresh_token", "get_access_token"}
          /\ tokens' # tokens )
        => ( /\ tokens'.kind = "dict"
             /\ {"expires_in", "expires_at"} \subseteq DOMAIN tokens'.d
             /\ tokens'.d["expires_at"] = clock' + tokens'.d["expires_in"] ) ]_vars

-----------------------------------------------------------------------------
(* C18 *)

-----------------------------------------------------------------------------
(* C19 *)

\* C19: get_access_token() called while the TokenSet in memory is not
\* expired calls no method, sends nothing to the token endpoint, returns the
\* access_token in memory and leaves the TokenSet, the token file and the
\* clock as they were.
C19_FreshTokenIsLocal ==
    [][ ( /\ call' = "get_access_token"
          /\ HeldFresh(tokens, clock) )
        => ( /\ trace' = <<>>
             /\ exc' = NoExc
             /\ ret' = tokens.d["access_token"]
             /\ tokens' = tokens
             /\ file' = file
             /\ clock' = clock ) ]_vars

\* get_access_token() returned the token in memory, some time after it was
\* obtained and before it ran out
C19_Witness ==
    /\ call = "get_access_token"
    /\ trace = <<>>
    /\ exc = NoExc
    /\ HeldFresh(tokens, clock)
    /\ "expires_in" \in DOMAIN tokens.d
    /\ clock > tokens.d["expires_at"] - tokens.d["expires_in"]
    /\ ret = tokens.d["access_token"]

-----------------------------------------------------------------------------
(* C20 *)

\* the events after the first resource request of a call
AfterResource(tr) ==
    IF ResourceAt(tr) = {} THEN <<>>
    ELSE SubSeq(tr, (CHOOSE j \in ResourceAt(tr) : \A k \in ResourceAt(tr) : j <= k) + 1,
                Len(tr))

\* C20: every get() or post() ends, by returning the body of its last
\* response or by raising, after at most two resource requests and at most
\* three requests to the token endpoint: at most one before the first
\* resource request, and, only when that request was answered 401, the one
\* of the refresh_token() call made in answer to it and at most one more
\* before the retry.
C20_BoundedRequests ==
    call \in {"get", "post"} =>
        /\ \/ exc # NoExc
           \/ /\ Resource(trace) # <<>>
              /\ ret = Resource(trace)[Len(Resource(trace))].body
        /\ Len(Resource(trace)) <= 2
        /\ Len(TokenRequests(trace)) <= 3
        /\ Len(TokenRequests(BeforeResource(trace))) <= 1
        /\ Len(TokenRequests(AfterResource(trace))) <= 2
        /\ Len(CallsFrom(trace, "refresh_token", call)) <= 1
        /\ AfterResource(trace) # <<>>
           => ( /\ Resource(trace)[1].status = 401
                /\ AfterResource(trace)[1] = CallEv("refresh_token", call) )

\* a call that sent three requests to the token endpoint and two resource
\* requests, and returned
C20_Witness ==
    /\ call \in {"get", "post"}
    /\ Len(TokenRequests(trace)) = 3
    /\ Len(TokenRequests(BeforeResource(trace))) = 1
    /\ Len(Resource(trace)) = 2
    /\ exc = NoExc
    /\ ret = "B200"

=============================================================================
